---- MODULE Spec2Model ----
(***************************************************************************)
(* Spin population models of gwpopulation/models/spin.py.                  *)
(*                                                                         *)
(* Every density model is a function (dataset, hyperparameters) -> array.  *)
(* The model keeps the caller's dataset, the last call and what it         *)
(* returned, and evaluates each model function the way the source does:    *)
(* the same reads of the dataset, the same arithmetic in the same order,   *)
(* the same in-place updates of the array bound to `prob`.                 *)
(*                                                                         *)
(* Numbers.  A float is modelled as a pair <<n, d>> of integers, d >= 0,   *)
(* in lowest terms: n/d when d > 0, +inf = <<1,0>>, -inf = <<-1,0>> and    *)
(* NaN = <<0,0>>.  Finite arithmetic is exact (no rounding); the special   *)
(* values follow IEEE 754 as numpy applies it to arrays: x/0 is +-inf,     *)
(* 0/0 is NaN, inf*0 is NaN, NaN propagates.  Signed zeros are not kept.   *)
(***************************************************************************)
EXTENDS Integers, Sequences, FiniteSets, TLC

VARIABLES
    dataset,        \* the caller's dataset: key -> array, for the keys present
    dataset0,       \* the dataset as the caller built it (never written)
    call,           \* the last call: [fn, h] (function name, hyperparameters)
    result,         \* what the last call returned or raised
    normalization,  \* the value last bound to the local `normalization`
    history,        \* the calls made so far on this dataset, each with its outcome
    ncalls          \* number of calls made so far

vars == <<dataset, dataset0, call, result, normalization, history, ncalls>>

----------------------------------------------------------------------------
(* Bounds of the model *)

\* longest dataset array
MaxLen == 2
\* points of the quadrature that normalizes a truncated 1-D density
NormPoints == 3
\* exp(-q) underflows to 0 once q, in units of ln 2, passes MaxExp
\* (1074 for a double)
MaxExp == 5
\* fraction bits kept by the modelled exp and by the arguments of the
\* modelled bivariate kernels (52 for a double)
FracBits == 1
\* calls made on one dataset in a sequence of calls
MaxCalls == 3

----------------------------------------------------------------------------
(* The quadrature grid of _normalization *)

\* xp.linspace(-1, 1, 500)
GridEff == 500
\* xp.linspace(0, 1, 250)
GridP == 250

----------------------------------------------------------------------------
(* Float arithmetic *)

Abs(n) == IF n < 0 THEN -n ELSE n

Sign(n) == IF n < 0 THEN -1 ELSE IF n > 0 THEN 1 ELSE 0

RECURSIVE Gcd(_, _)
Gcd(a, b) == IF b = 0 THEN a ELSE Gcd(b, a % b)

\* n/d in lowest terms, d >= 0; n/0 is an infinity of n's sign, 0/0 is NaN
Rat(n, d) ==
    IF d = 0 THEN <<Sign(n), 0>>
    ELSE LET g == Gcd(Abs(n), Abs(d))
             s == Sign(d)
         IN  <<(s * n) \div g, (s * d) \div g>>

NaN == <<0, 0>>
PosInf == <<1, 0>>
Zero == <<0, 1>>
One == <<1, 1>>
FromInt(n) == <<n, 1>>

IsFinite(a) == a[2] # 0

\* a * b; the factors are cancelled crosswise before they are multiplied,
\* which leaves the product in lowest terms
Mul(a, b) ==
    IF ~IsFinite(a) \/ ~IsFinite(b) THEN Rat(a[1] * b[1], 0)
    ELSE LET g1 == Gcd(Abs(a[1]), b[2])
             g2 == Gcd(Abs(b[1]), a[2])
         IN  <<(a[1] \div g1) * (b[1] \div g2), (a[2] \div g2) * (b[2] \div g1)>>

Recip(a) ==
    IF a[1] = 0 THEN <<a[2], 0>>
    ELSE <<Sign(a[1]) * a[2], Abs(a[1])>>

Div(a, b) == Mul(a, Recip(b))

Neg(a) == <<-a[1], a[2]>>

Add(a, b) ==
    IF IsFinite(a) /\ IsFinite(b)
    THEN LET g == Gcd(a[2], b[2])
         IN  Rat(a[1] * (b[2] \div g) + b[1] * (a[2] \div g), (a[2] \div g) * b[2])
    ELSE IF a = NaN \/ b = NaN THEN NaN
    ELSE IF ~IsFinite(a) /\ ~IsFinite(b) THEN (IF a = b THEN a ELSE NaN)
    ELSE IF IsFinite(a) THEN b ELSE a

Sub(a, b) == Add(a, Neg(b))

\* a / 2
Half(a) ==
    IF ~IsFinite(a) THEN a
    ELSE IF a[1] % 2 = 0 THEN <<a[1] \div 2, a[2]>>
    ELSE <<a[1], 2 * a[2]>>

\* a <= b: false when either side is NaN; the infinities are ordered around
\* the finite numbers
Le(a, b) ==
    IF a = NaN \/ b = NaN THEN FALSE
    ELSE IF IsFinite(a) /\ IsFinite(b) THEN a[1] * b[2] <= b[1] * a[2]
    ELSE IF IsFinite(a) THEN b = PosInf
    ELSE IF IsFinite(b) THEN a # PosInf
    ELSE a = b \/ b = PosInf

AbsVal(a) == <<Abs(a[1]), a[2]>>

\* a boolean mask entry as the factor numpy multiplies by
MaskVal(b) == IF b THEN One ELSE Zero

RECURSIVE Pow(_, _)
Pow(a, k) == IF k = 0 THEN One ELSE Mul(a, Pow(a, k - 1))

RECURSIVE Pow2(_)
Pow2(k) == IF k = 0 THEN 1 ELSE 2 * Pow2(k - 1)

RECURSIVE Factorial(_)
Factorial(k) == IF k <= 1 THEN 1 ELSE k * Factorial(k - 1)

----------------------------------------------------------------------------
(* Array backend: elementwise operations, linspace, trapz *)

ArrMul(A, B) == [i \in DOMAIN A |-> Mul(A[i], B[i])]

ArrScale(c, A) == [i \in DOMAIN A |-> Mul(c, A[i])]

ArrShift(c, A) == [i \in DOMAIN A |-> Add(c, A[i])]

ArrDiv(A, c) == [i \in DOMAIN A |-> Div(A[i], c)]

\* an array held as a sequence, each element computed once
Array(f) == f \o <<>>

\* xp.linspace(start, stop, num)
Linspace(start, stop, num) ==
    Array([i \in 1..num |->
              IF i = num THEN stop
              ELSE Add(start, Mul(FromInt(i - 1), Div(Sub(stop, start), FromInt(num - 1))))])

\* the sum of the elements lo..hi of an array, by halves as numpy's pairwise
\* summation adds them
RECURSIVE SumRange(_, _, _)
SumRange(A, lo, hi) ==
    IF lo > hi THEN Zero
    ELSE IF lo = hi THEN A[lo]
    ELSE LET mid == (lo + hi) \div 2
         IN  Add(SumRange(A, lo, mid), SumRange(A, mid + 1, hi))

\* xp.diff(x)
Diff(x) == Array([i \in 1..(Len(x) - 1) |-> Sub(x[i + 1], x[i])])

\* (d * (y[1:] + y[:-1]) / 2.0).sum() for d = diff(x)
TrapzWith(y, d) ==
    LET ys == Array(y)
    IN  SumRange([i \in 1..Len(d) |-> Half(Mul(d[i], Add(ys[i + 1], ys[i])))], 1, Len(d))

\* xp.trapz(y=y, x=x) along the last axis of a 1-D array
Trapz(y, x) == TrapzWith(y, Diff(x))

\* xp.trapz(y=Y, axis=-1, x=x) of a 2-D array: one integral per row, all with
\* the same diff(x)
TrapzRows(Y, x) ==
    LET d == Diff(x)
    IN  [j \in DOMAIN Y |-> TrapzWith(Y[j], d)]

\* xp.meshgrid(x, y): both grids have one row per y and one column per x
Meshgrid(x, y) ==
    [X |-> [j \in 1..Len(y) |-> x],
     Y |-> [j \in 1..Len(y) |-> [i \in 1..Len(x) |-> y[j]]]]

----------------------------------------------------------------------------
(* Primitive densities of gwpopulation.utils.  Each is a pure function that *)
(* returns a new array.  exp is modelled by ExpNeg: 2^(-q) at the integers, *)
(* linear in between in steps of 2^(-FracBits) (the rounding of the        *)
(* result), exactly 0 once q passes MaxExp (underflow) -- q is the         *)
(* exponent in units of ln 2.  A truncated density is normalized by a      *)
(* trapezoidal sum over its interval in place of the erf closed form.  The *)
(* bivariate kernels take their standardized residuals in fixed point,     *)
(* rounded down to steps of 2^(-FracBits).                                 *)

\* the steps of 2^(-FracBits) in one unit
FracUnit == Pow2(FracBits)

ExpNeg(q) ==
    IF q = NaN THEN NaN
    ELSE IF ~IsFinite(q) THEN (IF q = PosInf THEN Zero ELSE PosInf)
    ELSE LET k == q[1] \div q[2]
             f == ((q[1] - k * q[2]) * FracUnit) \div q[2]
         IN  IF k > MaxExp THEN Zero
             ELSE IF k < -MaxExp THEN PosInf
             ELSE IF k >= 0 THEN Rat(2 * FracUnit - f, 2 * FracUnit * Pow2(k))
             ELSE Rat((2 * FracUnit - f) * Pow2(-k), 2 * FracUnit)

\* exp(-(x - mu)^2 / (2 sigma^2))
GaussKernel(x, mu, sigma) ==
    ExpNeg(Div(Pow(Sub(x, mu), 2), Mul(FromInt(2), Pow(sigma, 2))))

\* min and max of two whole numbers
Min(a, b) == IF a < b THEN a ELSE b

Max(a, b) == IF a > b THEN a ELSE b

\* the skewing factor 2 Phi(t) of a skew-normal at t = alpha (x - mu) / sigma:
\* 1 + t in steps of 2^(-FracBits), held inside (0, 2)
SkewFactor(x, mu, sigma, alpha) ==
    IF (\A a \in {x, mu, sigma, alpha} : IsFinite(a)) /\ sigma[1] # 0
    THEN LET steps == (Sign(sigma[1]) * FracUnit * alpha[1]
                          * (x[1] * mu[2] - mu[1] * x[2]) * sigma[2])
                      \div (alpha[2] * x[2] * mu[2] * Abs(sigma[1]))
             held == Max(1 - FracUnit, Min(FracUnit - 1, steps))
         IN  Rat(FracUnit + held, FracUnit)
    ELSE LET t == Mul(alpha, Div(Sub(x, mu), sigma))
         IN  IF t = NaN THEN NaN
             ELSE Rat(FracUnit + t[1] * (FracUnit - 1), FracUnit)

SkewKernel(x, mu, sigma, alpha) ==
    Mul(GaussKernel(x, mu, sigma), SkewFactor(x, mu, sigma, alpha))

InRange(x, low, high) == Le(x, high) /\ Le(low, x)

\* truncnorm(xx, mu, sigma, high, low)
Truncnorm(xx, mu, sigma, high, low) ==
    LET grid == Linspace(low, high, NormPoints)
        norm == Recip(Trapz([i \in DOMAIN grid |-> GaussKernel(grid[i], mu, sigma)], grid))
    IN  [i \in DOMAIN xx |->
            Mul(Mul(GaussKernel(xx[i], mu, sigma), norm),
                MaskVal(InRange(xx[i], low, high)))]

\* truncskewnorm(xx, mu, sigma, alpha, high, low)
Truncskewnorm(xx, mu, sigma, alpha, high, low) ==
    LET grid == Linspace(low, high, NormPoints)
        norm == Recip(Trapz([i \in DOMAIN grid |-> SkewKernel(grid[i], mu, sigma, alpha)], grid))
    IN  [i \in DOMAIN xx |->
            Mul(Mul(SkewKernel(xx[i], mu, sigma, alpha), norm),
                MaskVal(InRange(xx[i], low, high)))]

\* the standardized residual (x - mu) / sigma of finite numbers, sigma # 0,
\* rounded down to a whole number of steps of 2^(-FracBits)
Residual(x, mu, sigma) ==
    (Sign(sigma[1]) * FracUnit * (x[1] * mu[2] - mu[1] * x[2]) * sigma[2])
        \div (x[2] * mu[2] * Abs(sigma[1]))

\* the exponent of the bivariate Gaussian of correlation `covariance`, with u
\* and w the standardized residuals: (u^2 - 2 rho u w + w^2) / (2 (1 - rho^2));
\* a residual that is not finite is not rounded
QuadForm(x, y, mu_x, mu_y, sigma_x, sigma_y, covariance) ==
    IF /\ \A a \in {x, y, mu_x, mu_y, sigma_x, sigma_y, covariance} : IsFinite(a)
       /\ sigma_x[1] # 0
       /\ sigma_y[1] # 0
    THEN LET u == Residual(x, mu_x, sigma_x)
             w == Residual(y, mu_y, sigma_y)
             r == covariance
         IN  Rat(r[2] * r[2] * (u * u + w * w) - 2 * r[1] * r[2] * u * w,
                 2 * FracUnit * FracUnit * (r[2] * r[2] - r[1] * r[1]))
    ELSE LET residual_x == Div(Sub(x, mu_x), sigma_x)
             residual_y == Div(Sub(y, mu_y), sigma_y)
         IN  Div(Sub(Add(Pow(residual_x, 2), Pow(residual_y, 2)),
                     Mul(Mul(FromInt(2), Mul(residual_x, residual_y)), covariance)),
                 Mul(FromInt(2), Sub(One, Mul(covariance, covariance))))

\* unnormalized_2d_gaussian(xx, yy, mu_x, mu_y, sigma_x, sigma_y, covariance)
Unnormalized2dGaussian(xx, yy, mu_x, mu_y, sigma_x, sigma_y, covariance) ==
    [i \in DOMAIN xx |->
        ExpNeg(QuadForm(xx[i], yy[i], mu_x, mu_y, sigma_x, sigma_y, covariance))]

\* unnormalized_2d_skew_gaussian(xx, yy, mu_x, mu_y, sigma_x, sigma_y,
\*                               skew_x, skew_y, covariance)
Unnormalized2dSkewGaussian(xx, yy, mu_x, mu_y, sigma_x, sigma_y, skew_x, skew_y, covariance) ==
    [i \in DOMAIN xx |->
        Mul(Mul(ExpNeg(QuadForm(xx[i], yy[i], mu_x, mu_y, sigma_x, sigma_y, covariance)),
                SkewFactor(xx[i], mu_x, sigma_x, skew_x)),
            SkewFactor(yy[i], mu_y, sigma_y, skew_y))]

\* beta_dist(xx, alpha, beta, scale) for whole-number shape parameters:
\* x^(alpha-1) (scale-x)^(beta-1) / (B(alpha, beta) scale^(alpha+beta-1)) on [0, scale]
BetaDist(xx, alpha, beta, scale) ==
    LET invB == Rat(Factorial(alpha + beta - 1), Factorial(alpha - 1) * Factorial(beta - 1))
    IN  [i \in DOMAIN xx |->
            Mul(Div(Mul(Mul(Pow(xx[i], alpha - 1), Pow(Sub(scale, xx[i]), beta - 1)), invB),
                    Pow(scale, alpha + beta - 1)),
                MaskVal(InRange(xx[i], Zero, scale)))]

----------------------------------------------------------------------------
(* Outcomes of a call.  A call either raises (err names the exception, out  *)
(* is empty) or returns the array out.  trace lists the steps the call ran, *)
(* store is the dataset as the call left it, norm the value it bound to     *)
(* `normalization` (Unset when it bound none).                              *)

Unset == <<>>

Raise(exc, tr, store) ==
    [err |-> exc, out |-> <<>>, trace |-> tr, store |-> store, norm |-> Unset]

Return(arr, tr, store, norm) ==
    [err |-> "", out |-> arr, trace |-> tr, store |-> store, norm |-> norm]

Has(ds, key) == key \in DOMAIN ds

\* the objects a call can name: the arrays of the caller's dataset, by key,
\* and the arrays bound to the call's own local names
Frame(ds) == [dataset |-> ds, locals |-> [k \in {} |-> <<>>]]

\* name = arr
Bind(store, name, arr) ==
    [store EXCEPT !.locals = [k \in DOMAIN store.locals \cup {name} |->
                                 IF k = name THEN arr ELSE store.locals[k]]]

\* the object the local name prob is bound to
Prob == <<"locals", "prob">>

\* `ref *= arr` and `ref /= c`: the object named ref is updated in place
InPlaceMul(store, ref, arr) ==
    [store EXCEPT ![ref[1]][ref[2]] = ArrMul(store[ref[1]][ref[2]], arr)]

InPlaceDiv(store, ref, c) ==
    [store EXCEPT ![ref[1]][ref[2]] = ArrDiv(store[ref[1]][ref[2]], c)]

----------------------------------------------------------------------------
(* Spin magnitude *)

IndependentSpinMagnitudeBeta(ds, alpha_chi_1, alpha_chi_2, beta_chi_1, beta_chi_2, amax_1, amax_2) ==
    IF ~Has(ds, "a_1") THEN Raise("KeyError", <<>>, ds)
    ELSE IF ~Has(ds, "a_2") THEN Raise("KeyError", <<"beta_dist">>, ds)
    ELSE Return(ArrMul(BetaDist(ds["a_1"], alpha_chi_1, beta_chi_1, amax_1),
                       BetaDist(ds["a_2"], alpha_chi_2, beta_chi_2, amax_2)),
                <<"beta_dist", "beta_dist", "multiply">>, ds, Unset)

\* mutant: the shape parameters passed as (alpha_1, beta_1, alpha_2, beta_2)
IidSpinMagnitudeBetaWrongSlots(ds, amax, alpha_chi, beta_chi) ==
    IndependentSpinMagnitudeBeta(ds, alpha_chi, beta_chi, alpha_chi, beta_chi, amax, amax)

IidSpinMagnitudeBeta(ds, amax, alpha_chi, beta_chi) ==
    IndependentSpinMagnitudeBeta(ds, alpha_chi, alpha_chi, beta_chi, beta_chi, amax, amax)

----------------------------------------------------------------------------
(* Spin orientation *)

\* mutant: the two mixture weights exchanged
IndependentSpinOrientationSwappedWeights(ds, xi_spin, sigma_1, sigma_2) ==
    IF ~Has(ds, "cos_tilt_1") THEN Raise("KeyError", <<>>, ds)
    ELSE IF ~Has(ds, "cos_tilt_2") THEN Raise("KeyError", <<"truncnorm">>, ds)
    ELSE Return(
            ArrShift(Div(xi_spin, FromInt(4)),
                     ArrMul(ArrScale(Sub(One, xi_spin),
                                     Truncnorm(ds["cos_tilt_1"], One, sigma_1, One, FromInt(-1))),
                            Truncnorm(ds["cos_tilt_2"], One, sigma_2, One, FromInt(-1)))),
            <<"truncnorm", "truncnorm", "mixture">>, ds, Unset)

IndependentSpinOrientationGaussianIsotropic(ds, xi_spin, sigma_1, sigma_2) ==
    IF ~Has(ds, "cos_tilt_1") THEN Raise("KeyError", <<>>, ds)
    ELSE IF ~Has(ds, "cos_tilt_2") THEN Raise("KeyError", <<"truncnorm">>, ds)
    ELSE Return(
            ArrShift(Div(Sub(One, xi_spin), FromInt(4)),
                     ArrMul(ArrScale(xi_spin,
                                     Truncnorm(ds["cos_tilt_1"], One, sigma_1, One, FromInt(-1))),
                            Truncnorm(ds["cos_tilt_2"], One, sigma_2, One, FromInt(-1)))),
            <<"truncnorm", "truncnorm", "mixture">>, ds, Unset)

IidSpinOrientationGaussianIsotropic(ds, xi_spin, sigma_spin) ==
    IndependentSpinOrientationGaussianIsotropic(ds, xi_spin, sigma_spin, sigma_spin)

IidSpin(ds, xi_spin, sigma_spin, amax, alpha_chi, beta_chi) ==
    LET orientation == IidSpinOrientationGaussianIsotropic(ds, xi_spin, sigma_spin)
        magnitude == IidSpinMagnitudeBeta(ds, amax, alpha_chi, beta_chi)
    IN  IF orientation.err # "" THEN orientation
        ELSE IF magnitude.err # ""
             THEN Raise(magnitude.err, orientation.trace \o magnitude.trace, ds)
        ELSE Return(ArrMul(orientation.out, magnitude.out),
                    orientation.trace \o magnitude.trace \o <<"multiply">>, ds, Unset)

----------------------------------------------------------------------------
(* Effective spins: the marginals *)

GaussianChiEff(ds, mu_chi_eff, sigma_chi_eff) ==
    IF ~Has(ds, "chi_eff") THEN Raise("KeyError", <<>>, ds)
    ELSE Return(Truncnorm(ds["chi_eff"], mu_chi_eff, sigma_chi_eff, One, FromInt(-1)),
                <<"truncnorm">>, ds, Unset)

\* mutant: a missing chi_p is read as 0 (dataset.get("chi_p", 0))
GaussianChiPWithDefault(ds, mu_chi_p, sigma_chi_p) ==
    Return(Truncnorm(IF Has(ds, "chi_p") THEN ds["chi_p"] ELSE <<Zero>>,
                     mu_chi_p, sigma_chi_p, One, Zero),
           <<"truncnorm">>, ds, Unset)

GaussianChiP(ds, mu_chi_p, sigma_chi_p) ==
    IF ~Has(ds, "chi_p") THEN Raise("KeyError", <<>>, ds)
    ELSE Return(Truncnorm(ds["chi_p"], mu_chi_p, sigma_chi_p, One, Zero),
                <<"truncnorm">>, ds, Unset)

SkewGaussianChiEff(ds, mu_chi_eff, sigma_chi_eff, skew_chi_eff) ==
    IF ~Has(ds, "chi_eff") THEN Raise("KeyError", <<>>, ds)
    ELSE Return(Truncskewnorm(ds["chi_eff"], mu_chi_eff, sigma_chi_eff, skew_chi_eff,
                              One, FromInt(-1)),
                <<"truncskewnorm">>, ds, Unset)

SkewGaussianChiP(ds, mu_chi_p, sigma_chi_p, skew_chi_p) ==
    IF ~Has(ds, "chi_p") THEN Raise("KeyError", <<>>, ds)
    ELSE Return(Truncskewnorm(ds["chi_p"], mu_chi_p, sigma_chi_p, skew_chi_p, One, Zero),
                <<"truncskewnorm">>, ds, Unset)

----------------------------------------------------------------------------
(* Effective spins: the correlated bivariate models *)

\* xp.trapz(y=xp.trapz(y=prob_grid, axis=-1, x=chi_eff_linspace),
\*          axis=-1, x=chi_p_linspace)
NestedTrapz(prob_grid, chi_eff_linspace, chi_p_linspace) ==
    Trapz(TrapzRows(prob_grid, chi_eff_linspace), chi_p_linspace)

\* mutant: the quadrature run without its coordinates (trapz's unit spacing)
NormalizationUnitSpacing(mu_chi_eff, sigma_chi_eff, mu_chi_p, sigma_chi_p, rho) ==
    LET chi_eff_linspace == Linspace(FromInt(-1), One, GridEff)
        chi_p_linspace == Linspace(Zero, One, GridP)
        mesh == Meshgrid(chi_eff_linspace, chi_p_linspace)
        prob_grid == [j \in DOMAIN mesh.X |->
                        Unnormalized2dGaussian(mesh.X[j], mesh.Y[j], mu_chi_eff, mu_chi_p,
                                               sigma_chi_eff, sigma_chi_p, rho)]
    IN  NestedTrapz(prob_grid, [i \in 1..GridEff |-> FromInt(i)],
                    [j \in 1..GridP |-> FromInt(j)])

\* _normalization of gaussian_chi_p_chi_eff
Normalization(mu_chi_eff, sigma_chi_eff, mu_chi_p, sigma_chi_p, rho) ==
    LET chi_eff_linspace == Linspace(FromInt(-1), One, GridEff)
        chi_p_linspace == Linspace(Zero, One, GridP)
        mesh == Meshgrid(chi_eff_linspace, chi_p_linspace)
        prob_grid == [j \in DOMAIN mesh.X |->
                        Unnormalized2dGaussian(mesh.X[j], mesh.Y[j], mu_chi_eff, mu_chi_p,
                                               sigma_chi_eff, sigma_chi_p, rho)]
    IN  NestedTrapz(prob_grid, chi_eff_linspace, chi_p_linspace)

\* _normalization of gaussian_chi_p_chi_eff_skew
NormalizationSkew(mu_chi_eff, sigma_chi_eff, mu_chi_p, sigma_chi_p, skew_chi_eff, skew_chi_p, rho) ==
    LET chi_eff_linspace == Linspace(FromInt(-1), One, GridEff)
        chi_p_linspace == Linspace(Zero, One, GridP)
        mesh == Meshgrid(chi_eff_linspace, chi_p_linspace)
        prob_grid == [j \in DOMAIN mesh.X |->
                        Unnormalized2dSkewGaussian(mesh.X[j], mesh.Y[j], mu_chi_eff, mu_chi_p,
                                                   sigma_chi_eff, sigma_chi_p,
                                                   skew_chi_eff, skew_chi_p, rho)]
    IN  NestedTrapz(prob_grid, chi_eff_linspace, chi_p_linspace)

\* the hyperparameters the correlated (rho # 0) calls are made with: a kernel
\* that peaks inside the grid, and one that underflows on all of it
GeneralGaussHypers ==
    { [mu_chi_eff |-> Zero, sigma_chi_eff |-> One, mu_chi_p |-> <<1, 5>>,
       sigma_chi_p |-> <<1, 5>>, rho |-> <<1, 2>>],
      [mu_chi_eff |-> Zero, sigma_chi_eff |-> One, mu_chi_p |-> FromInt(5),
       sigma_chi_p |-> <<1, 10>>, rho |-> <<-1, 2>>] }

GeneralSkewHypers ==
    { [mu_chi_eff |-> Zero, sigma_chi_eff |-> One, mu_chi_p |-> <<1, 5>>,
       sigma_chi_p |-> <<1, 5>>, skew_chi_eff |-> One, skew_chi_p |-> Zero,
       rho |-> <<1, 2>>] }

\* _normalization depends on the hyperparameters only: its values at the
\* hyperparameters above, each computed once
NormalizationValues ==
    [h \in GeneralGaussHypers |->
        Normalization(h.mu_chi_eff, h.sigma_chi_eff, h.mu_chi_p, h.sigma_chi_p, h.rho)]

NormalizationSkewValues ==
    [h \in GeneralSkewHypers |->
        NormalizationSkew(h.mu_chi_eff, h.sigma_chi_eff, h.mu_chi_p, h.sigma_chi_p,
                          h.skew_chi_eff, h.skew_chi_p, h.rho)]

\* the call _normalization(...): the value computed once where there is one
NormalizationAt(mu_chi_eff, sigma_chi_eff, mu_chi_p, sigma_chi_p, rho) ==
    LET h == [mu_chi_eff |-> mu_chi_eff, sigma_chi_eff |-> sigma_chi_eff,
              mu_chi_p |-> mu_chi_p, sigma_chi_p |-> sigma_chi_p, rho |-> rho]
    IN  IF h \in GeneralGaussHypers THEN NormalizationValues[h]
        ELSE Normalization(mu_chi_eff, sigma_chi_eff, mu_chi_p, sigma_chi_p, rho)

NormalizationSkewAt(mu_chi_eff, sigma_chi_eff, mu_chi_p, sigma_chi_p, skew_chi_eff, skew_chi_p, rho) ==
    LET h == [mu_chi_eff |-> mu_chi_eff, sigma_chi_eff |-> sigma_chi_eff,
              mu_chi_p |-> mu_chi_p, sigma_chi_p |-> sigma_chi_p,
              skew_chi_eff |-> skew_chi_eff, skew_chi_p |-> skew_chi_p, rho |-> rho]
    IN  IF h \in GeneralSkewHypers THEN NormalizationSkewValues[h]
        ELSE NormalizationSkew(mu_chi_eff, sigma_chi_eff, mu_chi_p, sigma_chi_p,
                               skew_chi_eff, skew_chi_p, rho)

\* mutant: the mask multiplied into the dataset's chi_eff array
MaskChiEffIntoDataset(store) ==
    InPlaceMul(store, <<"dataset", "chi_eff">>,
               [i \in DOMAIN store.dataset["chi_eff"] |->
                    MaskVal(Le(AbsVal(store.dataset["chi_eff"][i]), One))])

\* prob *= xp.abs(dataset["chi_eff"]) <= 1
MaskChiEff(store) ==
    InPlaceMul(store, Prob,
               [i \in DOMAIN store.dataset["chi_eff"] |->
                    MaskVal(Le(AbsVal(store.dataset["chi_eff"][i]), One))])

\* prob *= (dataset["chi_p"] <= 1) * (dataset["chi_p"] >= 0)
MaskChiP(store) ==
    InPlaceMul(store, Prob,
               [i \in DOMAIN store.dataset["chi_p"] |->
                    MaskVal(Le(store.dataset["chi_p"][i], One)
                            /\ Le(Zero, store.dataset["chi_p"][i]))])

\* the general path once prob holds the kernel: normalize, divide, mask
DivideAndMask(store, norm) ==
    LET masked == MaskChiP(MaskChiEff(InPlaceDiv(store, Prob, norm)))
    IN  Return(masked.locals["prob"],
               <<"kernel", "normalization", "divide", "mask_chi_eff", "mask_chi_p">>,
               masked.dataset, norm)

\* mutant: prob is bound to the first marginal and never multiplied by the second
ProductOfMarginalsFirstOnly(first, second, ds) ==
    IF first.err # "" THEN first
    ELSE IF second.err # "" THEN Raise(second.err, first.trace \o second.trace, ds)
    ELSE LET store == Bind(Frame(ds), "prob", first.out)
         IN  Return(store.locals["prob"], first.trace \o second.trace \o <<"multiply">>,
                    store.dataset, Unset)

\* the fast path: prob = first marginal; prob *= second marginal
ProductOfMarginals(first, second, ds) ==
    IF first.err # "" THEN first
    ELSE IF second.err # "" THEN Raise(second.err, first.trace \o second.trace, ds)
    ELSE LET store == InPlaceMul(Bind(Frame(ds), "prob", first.out), Prob, second.out)
         IN  Return(store.locals["prob"], first.trace \o second.trace \o <<"multiply">>,
                    store.dataset, Unset)

GaussianChiPChiEff(ds, mu_chi_eff, sigma_chi_eff, mu_chi_p, sigma_chi_p, rho) ==
    IF rho = Zero
    THEN ProductOfMarginals(GaussianChiEff(ds, mu_chi_eff, sigma_chi_eff),
                            GaussianChiP(ds, mu_chi_p, sigma_chi_p), ds)
    ELSE IF ~Has(ds, "chi_eff") \/ ~Has(ds, "chi_p") THEN Raise("KeyError", <<>>, ds)
    ELSE DivideAndMask(
            Bind(Frame(ds), "prob",
                 Unnormalized2dGaussian(ds["chi_eff"], ds["chi_p"], mu_chi_eff, mu_chi_p,
                                        sigma_chi_eff, sigma_chi_p, rho)),
            NormalizationAt(mu_chi_eff, sigma_chi_eff, mu_chi_p, sigma_chi_p, rho))

GaussianChiPChiEffSkew(ds, mu_chi_eff, sigma_chi_eff, mu_chi_p, sigma_chi_p, skew_chi_eff, skew_chi_p, rho) ==
    IF rho = Zero
    THEN ProductOfMarginals(SkewGaussianChiEff(ds, mu_chi_eff, sigma_chi_eff, skew_chi_eff),
                            SkewGaussianChiP(ds, mu_chi_p, sigma_chi_p, skew_chi_p), ds)
    ELSE IF ~Has(ds, "chi_eff") \/ ~Has(ds, "chi_p") THEN Raise("KeyError", <<>>, ds)
    ELSE DivideAndMask(
            Bind(Frame(ds), "prob",
                 Unnormalized2dSkewGaussian(ds["chi_eff"], ds["chi_p"], mu_chi_eff, mu_chi_p,
                                            sigma_chi_eff, sigma_chi_p,
                                            skew_chi_eff, skew_chi_p, rho)),
            NormalizationSkewAt(mu_chi_eff, sigma_chi_eff, mu_chi_p, sigma_chi_p,
                                skew_chi_eff, skew_chi_p, rho))

----------------------------------------------------------------------------
(* Inputs: the datasets and hyperparameters the calls are made with *)

Keys == {"a_1", "a_2", "cos_tilt_1", "cos_tilt_2", "chi_eff", "chi_p"}

Row(a_1, a_2, cos_tilt_1, cos_tilt_2, chi_eff, chi_p) ==
    [k \in Keys |->
        CASE k = "a_1" -> a_1
          [] k = "a_2" -> a_2
          [] k = "cos_tilt_1" -> cos_tilt_1
          [] k = "cos_tilt_2" -> cos_tilt_2
          [] k = "chi_eff" -> chi_eff
          [] OTHER -> chi_p]

\* one sample each: inside every support; chi_eff above 1; chi_p above 1 and
\* a_1 above amax; on the boundaries of the supports
SampleRow(n) ==
    CASE n = 1 -> Row(<<1, 2>>, <<3, 10>>, One, One, Zero, <<1, 5>>)
      [] n = 2 -> Row(<<3, 10>>, <<1, 2>>, Zero, FromInt(-1), FromInt(2), <<1, 5>>)
      [] n = 3 -> Row(FromInt(2), <<1, 4>>, FromInt(-1), <<1, 2>>, Zero, FromInt(5))
      [] OTHER -> Row(One, <<1, 2>>, <<1, 2>>, Zero, FromInt(-1), One)

\* the arrays of n samples; every model works sample by sample, so the
\* samples are listed in one order only
RowSeqs(n) ==
    { [i \in 1..n |-> SampleRow(pick[i])] :
        pick \in { f \in [1..n -> 1..4] :
                      \A i \in 1..(n - 1) : f[i] <= f[i + 1] } }

\* the dataset holding the keys `present` of the samples `rows`
MakeDataset(rows, present) ==
    [k \in present |-> [i \in DOMAIN rows |-> rows[i][k]]]

FullDatasets ==
    { MakeDataset(rows, Keys) : rows \in UNION { RowSeqs(n) : n \in 1..MaxLen } }

\* datasets that lack exactly one key
PartialDatasets ==
    { MakeDataset(rows, Keys \ {k}) : rows \in RowSeqs(1), k \in Keys }

Datasets == FullDatasets \cup PartialDatasets

XiSet == { Zero, <<1, 2>>, One }
TiltSigmaSet == { <<1, 2>>, One }
ShapeSet == { 1, 2 }
AmaxSet == { <<1, 2>>, One }
MuEffSet == { Zero, <<1, 5>> }
MuPSet == { <<1, 5>>, FromInt(5) }
SigmaSet == { <<1, 5>>, One }
SkewSet == { Zero, One }

----------------------------------------------------------------------------
(* The state machine: the caller builds a dataset and calls the models *)

NoCall == [fn |-> "", h |-> <<>>]

NoResult == [err |-> "", out |-> <<>>, trace |-> <<>>]

InitWith(ds) ==
    /\ dataset = ds
    /\ dataset0 = ds
    /\ call = NoCall
    /\ result = NoResult
    /\ normalization = Unset
    /\ history = <<>>
    /\ ncalls = 0

Init == \E ds \in Datasets : InitWith(ds)

\* the call c returned or raised r
Finish(c, r) ==
    /\ call' = c
    /\ result' = [err |-> r.err, out |-> r.out, trace |-> r.trace]
    /\ dataset' = r.store
    /\ normalization' = IF r.norm = Unset THEN normalization ELSE r.norm
    /\ history' = Append(history, [call |-> c, err |-> r.err, out |-> r.out])
    /\ ncalls' = ncalls + 1
    /\ UNCHANGED dataset0

CallIidSpin ==
    /\ ncalls = 0
    /\ \E xi_spin \in XiSet, sigma_spin \in TiltSigmaSet, amax \in AmaxSet,
          alpha_chi \in ShapeSet, beta_chi \in ShapeSet :
          Finish([fn |-> "iid_spin",
                  h |-> [xi_spin |-> xi_spin, sigma_spin |-> sigma_spin, amax |-> amax,
                         alpha_chi |-> alpha_chi, beta_chi |-> beta_chi]],
                 IidSpin(dataset, xi_spin, sigma_spin, amax, alpha_chi, beta_chi))

CallIidSpinMagnitudeBeta ==
    /\ ncalls = 0
    /\ \E amax \in AmaxSet, alpha_chi \in ShapeSet, beta_chi \in ShapeSet :
          Finish([fn |-> "iid_spin_magnitude_beta",
                  h |-> [amax |-> amax, alpha_chi |-> alpha_chi, beta_chi |-> beta_chi]],
                 IidSpinMagnitudeBeta(dataset, amax, alpha_chi, beta_chi))

CallIndependentSpinMagnitudeBeta ==
    /\ ncalls = 0
    /\ \E alpha_chi_1 \in ShapeSet, alpha_chi_2 \in ShapeSet, beta_chi_1 \in ShapeSet,
          beta_chi_2 \in ShapeSet, amax_1 \in AmaxSet, amax_2 \in AmaxSet :
          Finish([fn |-> "independent_spin_magnitude_beta",
                  h |-> [alpha_chi_1 |-> alpha_chi_1, alpha_chi_2 |-> alpha_chi_2,
                         beta_chi_1 |-> beta_chi_1, beta_chi_2 |-> beta_chi_2,
                         amax_1 |-> amax_1, amax_2 |-> amax_2]],
                 IndependentSpinMagnitudeBeta(dataset, alpha_chi_1, alpha_chi_2,
                                              beta_chi_1, beta_chi_2, amax_1, amax_2))

CallIidSpinOrientationGaussianIsotropic ==
    /\ ncalls = 0
    /\ \E xi_spin \in XiSet, sigma_spin \in TiltSigmaSet :
          Finish([fn |-> "iid_spin_orientation_gaussian_isotropic",
                  h |-> [xi_spin |-> xi_spin, sigma_1 |-> sigma_spin, sigma_2 |-> sigma_spin]],
                 IidSpinOrientationGaussianIsotropic(dataset, xi_spin, sigma_spin))

CallIndependentSpinOrientationGaussianIsotropic ==
    /\ ncalls = 0
    /\ \E xi_spin \in XiSet, sigma_1 \in TiltSigmaSet, sigma_2 \in TiltSigmaSet :
          Finish([fn |-> "independent_spin_orientation_gaussian_isotropic",
                  h |-> [xi_spin |-> xi_spin, sigma_1 |-> sigma_1, sigma_2 |-> sigma_2]],
                 IndependentSpinOrientationGaussianIsotropic(dataset, xi_spin, sigma_1, sigma_2))

CallGaussianChiEff ==
    /\ ncalls = 0
    /\ \E mu_chi_eff \in MuEffSet, sigma_chi_eff \in SigmaSet :
          Finish([fn |-> "gaussian_chi_eff",
                  h |-> [mu_chi_eff |-> mu_chi_eff, sigma_chi_eff |-> sigma_chi_eff]],
                 GaussianChiEff(dataset, mu_chi_eff, sigma_chi_eff))

CallGaussianChiP ==
    /\ ncalls = 0
    /\ \E mu_chi_p \in MuPSet, sigma_chi_p \in SigmaSet :
          Finish([fn |-> "gaussian_chi_p",
                  h |-> [mu_chi_p |-> mu_chi_p, sigma_chi_p |-> sigma_chi_p]],
                 GaussianChiP(dataset, mu_chi_p, sigma_chi_p))

CallSkewGaussianChiEff ==
    /\ ncalls = 0
    /\ \E mu_chi_eff \in MuEffSet, sigma_chi_eff \in SigmaSet, skew_chi_eff \in SkewSet :
          Finish([fn |-> "skew_gaussian_chi_eff",
                  h |-> [mu_chi_eff |-> mu_chi_eff, sigma_chi_eff |-> sigma_chi_eff,
                         skew_chi_eff |-> skew_chi_eff]],
                 SkewGaussianChiEff(dataset, mu_chi_eff, sigma_chi_eff, skew_chi_eff))

CallSkewGaussianChiP ==
    /\ ncalls = 0
    /\ \E mu_chi_p \in MuPSet, sigma_chi_p \in SigmaSet, skew_chi_p \in SkewSet :
          Finish([fn |-> "skew_gaussian_chi_p",
                  h |-> [mu_chi_p |-> mu_chi_p, sigma_chi_p |-> sigma_chi_p,
                         skew_chi_p |-> skew_chi_p]],
                 SkewGaussianChiP(dataset, mu_chi_p, sigma_chi_p, skew_chi_p))

\* every combination with rho = 0, and the correlated ones
GaussHypers ==
    [mu_chi_eff : MuEffSet, sigma_chi_eff : SigmaSet, mu_chi_p : MuPSet,
     sigma_chi_p : SigmaSet, rho : {Zero}]
        \cup GeneralGaussHypers

SkewHypers ==
    [mu_chi_eff : {Zero}, sigma_chi_eff : SigmaSet, mu_chi_p : MuPSet,
     sigma_chi_p : SigmaSet, skew_chi_eff : SkewSet, skew_chi_p : SkewSet,
     rho : {Zero}]
        \cup GeneralSkewHypers

DoGaussianChiPChiEff(h) ==
    Finish([fn |-> "gaussian_chi_p_chi_eff", h |-> h],
           GaussianChiPChiEff(dataset, h.mu_chi_eff, h.sigma_chi_eff, h.mu_chi_p,
                              h.sigma_chi_p, h.rho))

DoGaussianChiPChiEffSkew(h) ==
    Finish([fn |-> "gaussian_chi_p_chi_eff_skew", h |-> h],
           GaussianChiPChiEffSkew(dataset, h.mu_chi_eff, h.sigma_chi_eff, h.mu_chi_p,
                                  h.sigma_chi_p, h.skew_chi_eff, h.skew_chi_p, h.rho))

CallGaussianChiPChiEff ==
    /\ ncalls = 0
    /\ \E h \in GaussHypers : DoGaussianChiPChiEff(h)

CallGaussianChiPChiEffSkew ==
    /\ ncalls = 0
    /\ \E h \in SkewHypers : DoGaussianChiPChiEffSkew(h)

Next ==
    \/ CallIidSpin
    \/ CallIidSpinMagnitudeBeta
    \/ CallIndependentSpinMagnitudeBeta
    \/ CallIidSpinOrientationGaussianIsotropic
    \/ CallIndependentSpinOrientationGaussianIsotropic
    \/ CallGaussianChiEff
    \/ CallGaussianChiP
    \/ CallSkewGaussianChiEff
    \/ CallSkewGaussianChiP
    \/ CallGaussianChiPChiEff
    \/ CallGaussianChiPChiEffSkew

\* one call on any dataset with any hyperparameters
Spec == Init /\ [][Next]_vars

----------------------------------------------------------------------------
(* Sequences of calls on one dataset *)

SeqDatasets ==
    { MakeDataset(rows, Keys) :
        rows \in { <<SampleRow(1)>>,
                   <<Row(One, <<1, 2>>, <<1, 2>>, Zero, <<1, 5>>, One), SampleRow(2)>> } }

SeqGaussHypers ==
    [mu_chi_eff : {Zero}, sigma_chi_eff : {One}, mu_chi_p : {<<1, 5>>},
     sigma_chi_p : {<<1, 5>>}, rho : {Zero}]
        \cup GeneralGaussHypers

SeqSkewHypers ==
    [mu_chi_eff : {Zero}, sigma_chi_eff : {One}, mu_chi_p : {<<1, 5>>},
     sigma_chi_p : {<<1, 5>>}, skew_chi_eff : {One}, skew_chi_p : {Zero},
     rho : {Zero}]
        \cup GeneralSkewHypers

InitSeq == \E ds \in SeqDatasets : InitWith(ds)

\* mutant: the normalization is a compute-once cache: a correlated call divides
\* by the normalization an earlier call left behind whenever there is one, and
\* computes its own only when there is none
SeqGaussianChiPChiEffStale ==
    /\ ncalls < MaxCalls
    /\ \E h \in SeqGaussHypers :
          LET fresh == GaussianChiPChiEff(dataset, h.mu_chi_eff, h.sigma_chi_eff,
                                          h.mu_chi_p, h.sigma_chi_p, h.rho)
              stale == DivideAndMask(
                           Bind(Frame(dataset), "prob",
                                Unnormalized2dGaussian(dataset["chi_eff"], dataset["chi_p"],
                                                       h.mu_chi_eff, h.mu_chi_p,
                                                       h.sigma_chi_eff, h.sigma_chi_p, h.rho)),
                           normalization)
          IN  Finish([fn |-> "gaussian_chi_p_chi_eff", h |-> h],
                     IF h.rho = Zero \/ normalization = Unset \/ fresh.err # ""
                     THEN fresh
                     ELSE stale)

SeqGaussianChiPChiEff ==
    /\ ncalls < MaxCalls
    /\ \E h \in SeqGaussHypers : DoGaussianChiPChiEff(h)

SeqGaussianChiPChiEffSkew ==
    /\ ncalls < MaxCalls
    /\ \E h \in SeqSkewHypers : DoGaussianChiPChiEffSkew(h)

SeqIidSpin ==
    /\ ncalls < MaxCalls
    /\ \E xi_spin \in {<<1, 2>>}, sigma_spin \in TiltSigmaSet :
          Finish([fn |-> "iid_spin",
                  h |-> [xi_spin |-> xi_spin, sigma_spin |-> sigma_spin, amax |-> One,
                         alpha_chi |-> 2, beta_chi |-> 2]],
                 IidSpin(dataset, xi_spin, sigma_spin, One, 2, 2))

NextSeq ==
    \/ SeqGaussianChiPChiEff
    \/ SeqGaussianChiPChiEffSkew
    \/ SeqIidSpin

\* up to MaxCalls calls, one after the other, on the same dataset
SpecSeq == InitSeq /\ [][NextSeq]_vars

----------------------------------------------------------------------------
(* What the claims are stated over *)

Bivariate == {"gaussian_chi_p_chi_eff", "gaussian_chi_p_chi_eff_skew"}

TiltMixture ==
    {"iid_spin_orientation_gaussian_isotropic",
     "independent_spin_orientation_gaussian_isotropic"}

Returned == ncalls > 0 /\ result.err = ""

\* sample i of the caller's dataset lies in chi_eff in [-1, 1], chi_p in [0, 1]
InSupport(i) ==
    /\ InRange(dataset0["chi_eff"][i], FromInt(-1), One)
    /\ InRange(dataset0["chi_p"][i], Zero, One)

\* the two truncated normals of the aligned component, at sample i
Aligned(i) ==
    Mul(Truncnorm(dataset0["cos_tilt_1"], One, call.h.sigma_1, One, FromInt(-1))[i],
        Truncnorm(dataset0["cos_tilt_2"], One, call.h.sigma_2, One, FromInt(-1))[i])

\* the keys of the dataset a model's density is defined over
RequiredKeys(fn) ==
    CASE fn \in {"iid_spin_magnitude_beta", "independent_spin_magnitude_beta"} ->
            {"a_1", "a_2"}
      [] fn \in TiltMixture -> {"cos_tilt_1", "cos_tilt_2"}
      [] fn = "iid_spin" -> {"a_1", "a_2", "cos_tilt_1", "cos_tilt_2"}
      [] fn \in {"gaussian_chi_eff", "skew_gaussian_chi_eff"} -> {"chi_eff"}
      [] fn \in {"gaussian_chi_p", "skew_gaussian_chi_p"} -> {"chi_p"}
      [] fn \in Bivariate -> {"chi_eff", "chi_p"}
      [] OTHER -> {}

\* the unnormalized kernel of the bivariate call c at the point (x, y)
KernelOf(c, x, y) ==
    IF c.fn = "gaussian_chi_p_chi_eff"
    THEN Unnormalized2dGaussian(<<x>>, <<y>>, c.h.mu_chi_eff, c.h.mu_chi_p,
                                c.h.sigma_chi_eff, c.h.sigma_chi_p, c.h.rho)[1]
    ELSE Unnormalized2dSkewGaussian(<<x>>, <<y>>, c.h.mu_chi_eff, c.h.mu_chi_p,
                                    c.h.sigma_chi_eff, c.h.sigma_chi_p,
                                    c.h.skew_chi_eff, c.h.skew_chi_p, c.h.rho)[1]

KernelAt(x, y) == KernelOf(call, x, y)

\* node i of n equally spaced points over [a, b], and its trapezoid weight
Node(i, n, a, b) == Add(a, Div(Mul(FromInt(i - 1), Sub(b, a)), FromInt(n - 1)))

Weight(i, n, a, b) ==
    Div(Sub(b, a), FromInt(IF i = 1 \/ i = n THEN 2 * (n - 1) ELSE n - 1))

\* the nodes of the grid: 500 over [-1, 1] for chi_eff, 250 over [0, 1] for chi_p
EffNodes == Array([i \in 1..GridEff |-> Node(i, GridEff, FromInt(-1), One)])

PNodes == Array([j \in 1..GridP |-> Node(j, GridP, Zero, One)])

\* a trapezoid weight in units of half the spacing: 1 at the two ends of the
\* axis, 2 between them
EndOrInner(i, n) == IF i = 1 \/ i = n THEN 1 ELSE 2

\* the trapezoid rule over chi_eff for each chi_p node, then over chi_p, for
\* the kernel of the bivariate call c: half the spacing of each axis times the
\* weighted sum of the kernel over the nodes
GridIntegralOf(c) ==
    Mul(Mul(Weight(1, GridEff, FromInt(-1), One), Weight(1, GridP, Zero, One)),
        SumRange([j \in 1..GridP |->
                     Mul(FromInt(EndOrInner(j, GridP)),
                         SumRange([i \in 1..GridEff |->
                                      Mul(FromInt(EndOrInner(i, GridEff)),
                                          KernelOf(c, EffNodes[i], PNodes[j]))],
                                  1, GridEff))],
                 1, GridP))

\* the correlated calls the specifications make, and the grid integral of each
GeneralCalls ==
    { [fn |-> "gaussian_chi_p_chi_eff", h |-> h] : h \in GeneralGaussHypers }
        \cup { [fn |-> "gaussian_chi_p_chi_eff_skew", h |-> h] : h \in GeneralSkewHypers }

GridIntegrals == [c \in GeneralCalls |-> GridIntegralOf(c)]

\* the grid integral of the kernel of the last call
GridIntegral ==
    IF call \in GeneralCalls THEN GridIntegrals[call] ELSE GridIntegralOf(call)

GeneralPathSteps == <<"kernel", "normalization", "divide", "mask_chi_eff", "mask_chi_p">>

Steps(tr) == { tr[i] : i \in DOMAIN tr }

----------------------------------------------------------------------------
(* The claims *)

\* C1: gaussian_chi_p_chi_eff and gaussian_chi_p_chi_eff_skew return exactly 0
\* for every sample whose chi_eff is outside [-1, 1] or whose chi_p is outside
\* [0, 1], for every hyperparameter combination and every normalizing constant.
C1_OutsideSupportIsZero ==
    (Returned /\ call.fn \in Bivariate) =>
        \A i \in DOMAIN result.out : ~InSupport(i) => result.out[i] = Zero

\* C2: the tilt mixture returns (1 - xi)^2 / 4 + xi * truncnorm(z1) * truncnorm(z2):
\* the isotropic term is weighted by the square of (1 - xi_spin).
C2_IsotropicWeightIsSquared ==
    (Returned /\ call.fn \in TiltMixture) =>
        \A i \in DOMAIN result.out :
            result.out[i] = Add(Div(Pow(Sub(One, call.h.xi_spin), 2), FromInt(4)),
                                Mul(call.h.xi_spin, Aligned(i)))

\* C3 as stated: the tilt mixture returns 1/16 for every sample when xi_spin = 0
\* and the product of the two truncated normals when xi_spin = 1.
C3_XiZeroIsOneSixteenth ==
    (Returned /\ call.fn \in TiltMixture) =>
        \A i \in DOMAIN result.out :
            /\ call.h.xi_spin = Zero => result.out[i] = <<1, 16>>
            /\ call.h.xi_spin = One => result.out[i] = Aligned(i)

\* C3 as amended: the tilt mixture returns 1/4 for every sample when xi_spin = 0
\* and the product of the two truncated normals when xi_spin = 1.
C3_XiZeroIsOneQuarter ==
    (Returned /\ call.fn \in TiltMixture) =>
        \A i \in DOMAIN result.out :
            /\ call.h.xi_spin = Zero => result.out[i] = <<1, 4>>
            /\ call.h.xi_spin = One => result.out[i] = Aligned(i)

\* a tilt mixture call with xi_spin = 0 returned, on a sample whose aligned
\* component is not 0
C3_Witness ==
    /\ Returned
    /\ call.fn \in TiltMixture
    /\ call.h.xi_spin = Zero
    /\ \E i \in DOMAIN result.out : Aligned(i) # Zero /\ IsFinite(Aligned(i))

\* C4: when the normalizing constant of a rho # 0 call is zero, the call ends in
\* an error and returns no array obtained by dividing by it.
C4_ZeroNormalizationRaises ==
    (ncalls > 0 /\ call.fn \in Bivariate /\ call.h.rho # Zero /\ GridIntegral = Zero) =>
        result.err # ""

\* C5: a call on a dataset that lacks a key the model requires fails with an
\* error and returns no array.
C5_MissingKeyRaises ==
    (ncalls > 0 /\ ~(RequiredKeys(call.fn) \subseteq DOMAIN dataset0)) =>
        result.err = "KeyError" /\ result.out = <<>>

\* a correlated call (rho # 0) was made on a dataset without chi_p and raised
C5_Witness ==
    /\ ncalls > 0
    /\ call.fn \in Bivariate
    /\ call.h.rho # Zero
    /\ "chi_p" \notin DOMAIN dataset0
    /\ result.err = "KeyError"

\* C6: iid_spin_magnitude_beta(dataset, amax, alpha_chi, beta_chi) equals
\* independent_spin_magnitude_beta with alpha_chi, beta_chi and amax on both
\* components: beta_dist(a_1; alpha_chi, beta_chi, amax) * beta_dist(a_2; same).
C6_IidMagnitudeIsIndependentWithSharedParameters ==
    (ncalls > 0 /\ call.fn = "iid_spin_magnitude_beta") =>
        LET general == IndependentSpinMagnitudeBeta(
                           dataset0, call.h.alpha_chi, call.h.alpha_chi,
                           call.h.beta_chi, call.h.beta_chi, call.h.amax, call.h.amax)
        IN  /\ result.err = general.err
            /\ result.out = general.out
            /\ result.err = "" =>
                  result.out = ArrMul(
                      BetaDist(dataset0["a_1"], call.h.alpha_chi, call.h.beta_chi, call.h.amax),
                      BetaDist(dataset0["a_2"], call.h.alpha_chi, call.h.beta_chi, call.h.amax))

\* iid_spin_magnitude_beta returned a density that is not 0, for shape
\* parameters that differ from each other and amax below 1
C6_Witness ==
    /\ Returned
    /\ call.fn = "iid_spin_magnitude_beta"
    /\ call.h.alpha_chi # call.h.beta_chi
    /\ call.h.amax # One
    /\ \E i \in DOMAIN result.out : result.out[i] # Zero

\* C7: no model call changes the caller's dataset: same keys, same values.
C7_DatasetUnchanged == dataset = dataset0

\* a correlated call (rho # 0) returned, on a dataset with a sample outside the
\* support: the in-place division and both in-place masks have run
C7_Witness ==
    /\ Returned
    /\ call.fn \in Bivariate
    /\ call.h.rho # Zero
    /\ result.trace = GeneralPathSteps
    /\ \E i \in DOMAIN result.out : ~InSupport(i)

\* the outcome of the call c made alone, as the first and only call, on the
\* dataset the caller built
Alone(c) ==
    CASE c.fn = "gaussian_chi_p_chi_eff" ->
             GaussianChiPChiEff(dataset0, c.h.mu_chi_eff, c.h.sigma_chi_eff,
                                c.h.mu_chi_p, c.h.sigma_chi_p, c.h.rho)
      [] c.fn = "gaussian_chi_p_chi_eff_skew" ->
             GaussianChiPChiEffSkew(dataset0, c.h.mu_chi_eff, c.h.sigma_chi_eff,
                                    c.h.mu_chi_p, c.h.sigma_chi_p,
                                    c.h.skew_chi_eff, c.h.skew_chi_p, c.h.rho)
      [] c.fn = "iid_spin" ->
             IidSpin(dataset0, c.h.xi_spin, c.h.sigma_spin, c.h.amax,
                     c.h.alpha_chi, c.h.beta_chi)

\* C8: a call's outcome depends on its arguments only: every call of a
\* sequence, whatever calls were made before it, raises or returns exactly what
\* the same call returns when it is made alone on the caller's dataset, so two
\* calls with the same function and hyperparameters have the same outcome.
C8_SameCallSameOutcome ==
    /\ \A i \in DOMAIN history :
          /\ history[i].err = Alone(history[i].call).err
          /\ history[i].out = Alone(history[i].call).out
    /\ \A i, j \in DOMAIN history :
          history[i].call = history[j].call =>
              history[i].err = history[j].err /\ history[i].out = history[j].out

\* a correlated call was made first after a correlated call with other
\* hyperparameters, and then once more
C8_Witness ==
    /\ Len(history) = 3
    /\ history[1].call # history[2].call
    /\ history[2].call = history[3].call
    /\ history[1].call.fn \in Bivariate
    /\ history[2].call.fn \in Bivariate
    /\ history[1].call.h.rho # Zero
    /\ history[2].call.h.rho # Zero
    /\ \E i \in DOMAIN result.out : result.out[i] # Zero

\* C9: with rho = 0 the bivariate models return the product of the two
\* marginals, truncated to [-1, 1] and [0, 1], and evaluate no kernel, no
\* quadrature and no division.
C9_FastPathIsProductOfMarginals ==
    (ncalls > 0 /\ call.fn \in Bivariate /\ call.h.rho = Zero
       /\ {"chi_eff", "chi_p"} \subseteq DOMAIN dataset0) =>
        /\ result.err = ""
        /\ Steps(result.trace) \cap {"kernel", "normalization", "divide"} = {}
        /\ call.fn = "gaussian_chi_p_chi_eff" =>
              /\ result.out =
                    ArrMul(GaussianChiEff(dataset0, call.h.mu_chi_eff, call.h.sigma_chi_eff).out,
                           GaussianChiP(dataset0, call.h.mu_chi_p, call.h.sigma_chi_p).out)
              /\ result.out =
                    ArrMul(Truncnorm(dataset0["chi_eff"], call.h.mu_chi_eff,
                                     call.h.sigma_chi_eff, One, FromInt(-1)),
                           Truncnorm(dataset0["chi_p"], call.h.mu_chi_p,
                                     call.h.sigma_chi_p, One, Zero))
        /\ call.fn = "gaussian_chi_p_chi_eff_skew" =>
              /\ result.out =
                    ArrMul(SkewGaussianChiEff(dataset0, call.h.mu_chi_eff, call.h.sigma_chi_eff,
                                              call.h.skew_chi_eff).out,
                           SkewGaussianChiP(dataset0, call.h.mu_chi_p, call.h.sigma_chi_p,
                                            call.h.skew_chi_p).out)
              /\ result.out =
                    ArrMul(Truncskewnorm(dataset0["chi_eff"], call.h.mu_chi_eff,
                                         call.h.sigma_chi_eff, call.h.skew_chi_eff,
                                         One, FromInt(-1)),
                           Truncskewnorm(dataset0["chi_p"], call.h.mu_chi_p,
                                         call.h.sigma_chi_p, call.h.skew_chi_p, One, Zero))

\* gaussian_chi_p_chi_eff returned with rho = 0 and a density that is not 0
C9_Witness ==
    /\ Returned
    /\ call.fn = "gaussian_chi_p_chi_eff"
    /\ call.h.rho = Zero
    /\ \E i \in DOMAIN result.out : IsFinite(result.out[i]) /\ result.out[i] # Zero

\* C10: with rho # 0 the bivariate models return, for each sample inside the
\* support, kernel(sample) / Z, Z being the one scalar the nested trapezoid rule
\* gives for the same kernel and hyperparameters on the grid (chi_eff axis
\* first, then chi_p); the steps run in the order evaluate, normalize, divide,
\* mask.
C10_GeneralPathIsKernelOverGridIntegral ==
    (Returned /\ call.fn \in Bivariate /\ call.h.rho # Zero) =>
        /\ result.trace = GeneralPathSteps
        /\ normalization = GridIntegral
        /\ \A i \in DOMAIN result.out :
              InSupport(i) =>
                  result.out[i] =
                      Div(KernelAt(dataset0["chi_eff"][i], dataset0["chi_p"][i]), GridIntegral)

\* a correlated call returned a finite density that is not 0 for a sample
\* inside the support
C10_Witness ==
    /\ Returned
    /\ call.fn \in Bivariate
    /\ call.h.rho # Zero
    /\ \E i \in DOMAIN result.out :
          InSupport(i) /\ IsFinite(result.out[i]) /\ result.out[i] # Zero

====
